---------------------------- MODULE Spec2Model ----------------------------
(***************************************************************************)
(* A model of the curation pipeline of the feedback-AI admin application   *)
(* (src/admin_app.py and its older variant src/new.py, plus the learner    *)
(* application src/streamlit_feedback_ai_prototype_ver05.py).              *)
(*                                                                         *)
(* Python strings are modelled as sequences of one-character strings, so   *)
(* that split, strip, lower, substring search and lexical comparison are   *)
(* computed character by character, as the interpreter computes them.      *)
(* Python dicts (entries) are functions from field names to strings; a     *)
(* field that is absent from the dict is absent from the domain.           *)
(***************************************************************************)
EXTENDS Integers, Sequences, FiniteSets, TLC

(***************************************************************************)
(* Characters and strings                                                  *)
(***************************************************************************)

\* The characters of the model, in code point order (the order Python's
\* string comparison uses).  "ELL" stands for the one character U+2026.
CharOrder ==
  << "\n", " ", "-", ".", "/",
     "0", "1", "2", "3", "4", "5", "6", "7", "8", "9", ":",
     "A", "B", "C", "D", "E", "F", "G", "H", "I", "J", "K", "L", "M",
     "N", "O", "P", "Q", "R", "S", "T", "U", "V", "W", "X", "Y", "Z",
     "a", "b", "c", "d", "e", "f", "g", "h", "i", "j", "k", "l", "m",
     "n", "o", "p", "q", "r", "s", "t", "u", "v", "w", "x", "y", "z",
     "|", "ELL" >>

\* ord(c): the rank of c among the characters of the model
OrdOf ==
  [c \in {CharOrder[i] : i \in 1..Len(CharOrder)} |->
     CHOOSE i \in 1..Len(CharOrder) : CharOrder[i] = c]

Ord(c) == OrdOf[c]

IsUpper(c) == Ord(c) >= Ord("A") /\ Ord(c) <= Ord("Z")

IsSpace(c) == c \in {" ", "\n"}

\* str.lower()
lower(s) ==
  [i \in 1..Len(s) |->
     IF IsUpper(s[i]) THEN CharOrder[Ord(s[i]) + (Ord("a") - Ord("A"))] ELSE s[i]]

\* s[i:] for a 1-based i
DropTo(s, i) == SubSeq(s, i, Len(s))

\* str.lstrip() / str.rstrip() / str.strip(): leading and trailing whitespace
RECURSIVE lstrip(_)
lstrip(s) == IF s # <<>> /\ IsSpace(Head(s)) THEN lstrip(Tail(s)) ELSE s

RECURSIVE rstrip(_)
rstrip(s) ==
  IF s # <<>> /\ IsSpace(s[Len(s)]) THEN rstrip(SubSeq(s, 1, Len(s) - 1)) ELSE s

strip(s) == rstrip(lstrip(s))

\* str.strip("/"): leading and trailing occurrences of the one character c
RECURSIVE lstrip_char(_, _)
lstrip_char(s, c) ==
  IF s # <<>> /\ Head(s) = c THEN lstrip_char(Tail(s), c) ELSE s

RECURSIVE rstrip_char(_, _)
rstrip_char(s, c) ==
  IF s # <<>> /\ s[Len(s)] = c THEN rstrip_char(SubSeq(s, 1, Len(s) - 1), c) ELSE s

strip_char(s, c) == rstrip_char(lstrip_char(s, c), c)

\* str.startswith / str.endswith
startswith(s, p) == Len(p) <= Len(s) /\ SubSeq(s, 1, Len(p)) = p

endswith(s, p) ==
  Len(p) <= Len(s) /\ SubSeq(s, Len(s) - Len(p) + 1, Len(s)) = p

\* Python's `kw in v` on strings: kw occurs in v as a contiguous substring
str_in(kw, v) ==
  \E i \in 1..(Len(v) - Len(kw) + 1) : SubSeq(v, i, i + Len(kw) - 1) = kw

\* Python's a < b and a <= b on strings: lexical, by code point
RECURSIVE str_lt(_, _)
str_lt(a, b) ==
  IF b = <<>> THEN FALSE
  ELSE IF a = <<>> THEN TRUE
  ELSE IF Head(a) # Head(b) THEN Ord(Head(a)) < Ord(Head(b))
  ELSE str_lt(Tail(a), Tail(b))

str_le(a, b) == a = b \/ str_lt(a, b)

\* The position of the first occurrence of character c in s, 0 when absent
RECURSIVE find_char(_, _)
find_char(s, c) ==
  IF s = <<>> THEN 0
  ELSE IF Head(s) = c THEN 1
  ELSE LET r == find_char(Tail(s), c) IN IF r = 0 THEN 0 ELSE r + 1

\* str.split(sep, maxsplit) for a one-character sep; maxsplit = -1: no limit.
\* The result is never empty: "".split("/") is [""].
RECURSIVE split_max(_, _, _)
split_max(s, sep, maxsplit) ==
  LET p == find_char(s, sep) IN
  IF maxsplit = 0 \/ p = 0 THEN << s >>
  ELSE << SubSeq(s, 1, p - 1) >>
         \o split_max(DropTo(s, p + 1), sep,
                      IF maxsplit < 0 THEN maxsplit ELSE maxsplit - 1)

split(s, sep) == split_max(s, sep, -1)

\* sep.join(parts)
RECURSIVE join(_, _)
join(parts, sep) ==
  IF parts = <<>> THEN <<>>
  ELSE IF Len(parts) = 1 THEN parts[1]
  ELSE parts[1] \o sep \o join(Tail(parts), sep)

\* Python's `x or default` on strings: the empty string is falsy
str_or(x, default) == IF x # <<>> THEN x ELSE default


(***************************************************************************)
(* Dates, keys and entries                                                 *)
(***************************************************************************)

Digit(n) == CharOrder[Ord("0") + n]

\* A datetime.date is [y, m, d]; strftime("%Y-%m-%d") pads to 4-2-2 digits.
strftime_ymd(dt) ==
  << Digit((dt.y \div 1000) % 10), Digit((dt.y \div 100) % 10),
     Digit((dt.y \div 10) % 10), Digit(dt.y % 10), "-",
     Digit((dt.m \div 10) % 10), Digit(dt.m % 10), "-",
     Digit((dt.d \div 10) % 10), Digit(dt.d % 10) >>

\* date.__le__
date_le(a, b) ==
  \/ a.y < b.y
  \/ a.y = b.y /\ a.m < b.m
  \/ a.y = b.y /\ a.m = b.m /\ a.d <= b.d

\* dict.get(field, default)
Get(e, field, default) == IF field \in DOMAIN e THEN e[field] ELSE default

\* dict.get(field) or "": an absent field and an empty one both give ""
GetOrEmpty(e, field) == str_or(Get(e, field, <<>>), <<>>)

\* key_date: the second "/"-separated part of a key of three or more parts
key_date(key) ==
  LET parts == split(key, "/") IN
  IF Len(parts) >= 3 THEN parts[2] ELSE <<>>

\* filter_keys_by_date with the end of the range excluded
RECURSIVE filter_keys_end_exclusive(_, _, _)
filter_keys_end_exclusive(keys, start, end) ==
  LET s == strftime_ymd(start)
      e == strftime_ymd(end)
  IN IF keys = <<>> THEN <<>>
     ELSE LET kd == key_date(Head(keys))
              rest == filter_keys_end_exclusive(Tail(keys), start, end)
          IN IF kd # <<>> /\ str_le(s, kd) /\ str_lt(kd, e)
             THEN << Head(keys) >> \o rest ELSE rest

\* filter_keys_by_date: the loop over keys, keeping k when key_date(k) is
\* non-empty and s <= key_date(k) <= e as strings
RECURSIVE filter_keys_by_date(_, _, _)
filter_keys_by_date(keys, start, end) ==
  LET s == strftime_ymd(start)
      e == strftime_ymd(end)
  IN IF keys = <<>> THEN <<>>
     ELSE LET kd == key_date(Head(keys))
              rest == filter_keys_by_date(Tail(keys), start, end)
          IN IF kd # <<>> /\ str_le(s, kd) /\ str_le(kd, e)
             THEN << Head(keys) >> \o rest ELSE rest

DotJson == << ".", "j", "s", "o", "n" >>
Slash == << "/" >>

\* curated_key_from_raw that keeps the malformed raw key as the file name
curated_key_reusing_raw(raw_key, cur_prefix, day, hex10) ==
  LET parts == split_max(raw_key, "/", 2) IN
  IF Len(parts) >= 3
  THEN cur_prefix \o Slash \o parts[2] \o Slash \o parts[3]
  ELSE cur_prefix \o Slash \o day \o Slash \o parts[Len(parts)] \o DotJson

\* curated_key_from_raw(raw_key).  The globals and calls it reads are its
\* further parameters: cur_prefix is CUR_PREFIX, day is
\* datetime.utcnow().strftime("%Y-%m-%d"), hex10 is uuid.uuid4().hex[:10].
curated_key_from_raw(raw_key, cur_prefix, day, hex10) ==
  LET parts == split_max(raw_key, "/", 2) IN
  IF Len(parts) >= 3
  THEN cur_prefix \o Slash \o parts[2] \o Slash \o parts[3]
  ELSE cur_prefix \o Slash \o day \o Slash \o hex10 \o DotJson

KeywordFields == << "prompt", "ai_response", "approved_response", "review_notes" >>

\* contains_keyword that searches the concatenation of the four fields
contains_keyword_concat(e, kw) ==
  IF kw = <<>> THEN TRUE
  ELSE str_in(lower(kw),
              lower(GetOrEmpty(e, "prompt") \o GetOrEmpty(e, "ai_response")
                    \o GetOrEmpty(e, "approved_response")
                    \o GetOrEmpty(e, "review_notes")))

\* contains_keyword: an empty kw matches; otherwise the lower-cased kw must
\* occur in the lower-cased text of one of the four fields
contains_keyword(e, kw) ==
  IF kw = <<>> THEN TRUE
  ELSE \E i \in 1..Len(KeywordFields) :
         str_in(lower(kw), lower(GetOrEmpty(e, KeywordFields[i])))

\* The list comprehension [e for e in entries if contains_keyword(e, kw)]
RECURSIVE keep_matching(_, _)
keep_matching(entries, kw) ==
  IF entries = <<>> THEN <<>>
  ELSE IF contains_keyword(Head(entries), kw)
       THEN << Head(entries) >> \o keep_matching(Tail(entries), kw)
       ELSE keep_matching(Tail(entries), kw)

\* The callers' keyword step: `if keyword.strip(): entries = [e for ...]`.
\* The test strips the keyword, the search uses it as typed.
keyword_filter(entries, keyword) ==
  IF strip(keyword) # <<>> THEN keep_matching(entries, keyword) ELSE entries

\* One line of the tuning file.  json.dumps of the two-turn object is
\* one-to-one on it, so the line is modelled by the object.
jsonl_record(prompt, out) ==
  [contents |->
     << [role |-> "user", parts |-> << [text |-> prompt] >>],
        [role |-> "model", parts |-> << [text |-> out] >>] >>]

\* to_jsonl_lines that tests the prompt without stripping it
RECURSIVE to_jsonl_lines_raw_prompt(_)
to_jsonl_lines_raw_prompt(entries) ==
  IF entries = <<>> THEN <<>>
  ELSE LET e == Head(entries)
           prompt == strip(GetOrEmpty(e, "prompt"))
           out == strip(str_or(GetOrEmpty(e, "approved_response"),
                               GetOrEmpty(e, "ai_response")))
           rest == to_jsonl_lines_raw_prompt(Tail(entries))
       IN IF GetOrEmpty(e, "prompt") = <<>> \/ out = <<>> THEN rest
          ELSE << jsonl_record(prompt, out) >> \o rest

\* to_jsonl_lines: prompt and out are both stripped before the test
RECURSIVE to_jsonl_lines(_)
to_jsonl_lines(entries) ==
  IF entries = <<>> THEN <<>>
  ELSE LET e == Head(entries)
           prompt == strip(GetOrEmpty(e, "prompt"))
           out == strip(str_or(GetOrEmpty(e, "approved_response"),
                               GetOrEmpty(e, "ai_response")))
           rest == to_jsonl_lines(Tail(entries))
       IN IF prompt = <<>> \/ out = <<>> THEN rest
          ELSE << jsonl_record(prompt, out) >> \o rest

(***************************************************************************)
(* Configuration (the module-level constants read from st.secrets)         *)
(***************************************************************************)

s_raw_submissions == << "r", "a", "w" >>
s_curated == << "c", "u", "r" >>

\* RAW_PREFIX = (st.secrets.get("raw_prefix") or "raw_submissions")
\*                .strip().strip("/")
\* (the default's name is shortened to "raw" in the model)
RAW_PREFIX(secrets) ==
  strip_char(strip(str_or(Get(secrets, "raw_prefix", <<>>), s_raw_submissions)), "/")

\* CUR_PREFIX = (st.secrets.get("cur_prefix") or "curated").strip().strip("/")
\* (the default's name is shortened to "cur" in the model)
CUR_PREFIX(secrets) ==
  strip_char(strip(str_or(Get(secrets, "cur_prefix", <<>>), s_curated)), "/")

\* RAW_BUCKET = st.secrets.get("raw_bucket_name", "")
RAW_BUCKET(secrets) == Get(secrets, "raw_bucket_name", <<>>)

\* CUR_BUCKET = st.secrets.get("cur_bucket_name", RAW_BUCKET or "")
CUR_BUCKET(secrets) ==
  Get(secrets, "cur_bucket_name", str_or(RAW_BUCKET(secrets), <<>>))

\* The globals of one deployment; variant names the application file.
Globals(variant, secrets) ==
  [variant |-> variant,
   RAW_BUCKET |-> RAW_BUCKET(secrets), RAW_PREFIX |-> RAW_PREFIX(secrets),
   CUR_BUCKET |-> CUR_BUCKET(secrets), CUR_PREFIX |-> CUR_PREFIX(secrets)]

\* The bucket every curated read and write uses: CUR_BUCKET or RAW_BUCKET
CuratedBucket(g) == str_or(g.CUR_BUCKET, g.RAW_BUCKET)

(***************************************************************************)
(* The object store.  A store is a function from <<bucket, name>> to the   *)
(* stored dict; json.dumps followed by json.loads gives back a dict of     *)
(* strings unchanged, so an object is modelled by its dict.                *)
(***************************************************************************)

\* upload_json that does not replace an existing object
upload_json_if_absent(st, bucket, path, obj) ==
  IF << bucket, path >> \in DOMAIN st THEN st
  ELSE (<< bucket, path >> :> obj) @@ st

\* upload_json / gcs_upload_bytes: one put of the whole serialized dict,
\* replacing whatever is stored under the name
upload_json(st, bucket, path, obj) == (<< bucket, path >> :> obj) @@ st

\* delete_object
delete_object(st, bucket, path) ==
  [q \in (DOMAIN st) \ {<< bucket, path >>} |-> st[q]]

\* The names storage_client.list_blobs(bucket, prefix=f"{prefix}/") yields
\* that end in ".json"
json_names(st, bucket, prefix) ==
  {q[2] : q \in {r \in DOMAIN st :
                   /\ r[1] = bucket
                   /\ startswith(r[2], prefix \o Slash)
                   /\ endswith(r[2], DotJson)}}

\* The greatest string of a non-empty set
str_max(S) == CHOOSE x \in S : \A y \in S : str_le(y, x)

\* keys.sort() without reverse=True: ascending order
RECURSIVE sort_asc(_)
sort_asc(S) ==
  IF S = {} THEN <<>>
  ELSE LET m == str_max(S) IN sort_asc(S \ {m}) \o << m >>

\* keys.sort(reverse=True) on a list of distinct names
RECURSIVE sort_desc(_)
sort_desc(S) ==
  IF S = {} THEN <<>>
  ELSE LET m == str_max(S) IN << m >> \o sort_desc(S \ {m})

TTL == 60

\* @st.cache_data(ttl=60): the entry for these arguments, while it is live
cache_hit(cache, bucket, prefix) ==
  /\ << bucket, prefix >> \in DOMAIN cache
  /\ cache[<< bucket, prefix >>].age < TTL

\* The cache entry st.cache_data stores for a returned value; the st.warning
\* a cached call showed is replayed on every hit
cache_put(cache, bucket, prefix, keys, warned) ==
  (<< bucket, prefix >> :> [keys |-> keys, age |-> 0, warned |-> warned]) @@ cache

\* list_keys of src/new.py: no try/except, a failing store raises
list_keys_new(cache, st, bucket, prefix, store_fails) ==
  IF cache_hit(cache, bucket, prefix)
  THEN [keys |-> cache[<< bucket, prefix >>].keys, cache |-> cache,
        raised |-> FALSE, warned |-> FALSE, contacted |-> FALSE]
  ELSE IF bucket = <<>> \/ prefix = <<>>
  THEN [keys |-> <<>>,
        cache |-> cache_put(cache, bucket, prefix, <<>>, FALSE),
        raised |-> FALSE, warned |-> FALSE, contacted |-> FALSE]
  ELSE IF store_fails
  THEN [keys |-> <<>>, cache |-> cache, raised |-> TRUE, warned |-> FALSE,
        contacted |-> TRUE]
  ELSE LET keys == sort_desc(json_names(st, bucket, prefix)) IN
       [keys |-> keys,
        cache |-> cache_put(cache, bucket, prefix, keys, FALSE),
        raised |-> FALSE, warned |-> FALSE, contacted |-> TRUE]

\* list_keys of src/admin_app.py: a failing store is caught, a warning is
\* shown and [] is returned (and cached, like every returned value).
\* contacted: the call reached storage_client.list_blobs
list_keys_admin(cache, st, bucket, prefix, store_fails) ==
  IF cache_hit(cache, bucket, prefix)
  THEN [keys |-> cache[<< bucket, prefix >>].keys, cache |-> cache,
        raised |-> FALSE, warned |-> cache[<< bucket, prefix >>].warned,
        contacted |-> FALSE]
  ELSE IF bucket = <<>> \/ prefix = <<>>
  THEN [keys |-> <<>>,
        cache |-> cache_put(cache, bucket, prefix, <<>>, FALSE),
        raised |-> FALSE, warned |-> FALSE, contacted |-> FALSE]
  ELSE LET keys == IF store_fails THEN <<>>
                   ELSE sort_desc(json_names(st, bucket, prefix)) IN
       [keys |-> keys,
        cache |-> cache_put(cache, bucket, prefix, keys, store_fails),
        raised |-> FALSE, warned |-> store_fails, contacted |-> TRUE]

\* list_keys as the running variant defines it
list_keys(variant, cache, st, bucket, prefix, store_fails) ==
  IF variant = "admin_app"
  THEN list_keys_admin(cache, st, bucket, prefix, store_fails)
  ELSE list_keys_new(cache, st, bucket, prefix, store_fails)

\* A stored object whose JSON text is not an object (an array, a string, a
\* number): json.loads succeeds and gives a value that is not a dict
NotADict == ("[]" :> <<>>)
is_dict(d) == "[]" \notin DOMAIN d

\* load_entries with the key tag left out
load_entries_without_key(st, bucket, keys, unreadable) ==
  LET ok(k) == /\ << bucket, k >> \in DOMAIN st
               /\ k \notin unreadable
               /\ is_dict(st[<< bucket, k >>])
      kept == SelectSeq(keys, ok)
  IN [i \in 1..Len(kept) |-> ("_bucket" :> bucket) @@ st[<< bucket, kept[i] >>]]

\* load_entries: a key whose read raises (no such object, or in unreadable)
\* is skipped, and so is a value that is not a dict, whose item assignment
\* raises; a loaded dict gets "_bucket" and "_key"
RECURSIVE load_entries(_, _, _, _)
load_entries(st, bucket, keys, unreadable) ==
  IF keys = <<>> THEN <<>>
  ELSE LET k == Head(keys)
           rest == load_entries(st, bucket, Tail(keys), unreadable)
       IN IF /\ << bucket, k >> \in DOMAIN st
             /\ k \notin unreadable
             /\ is_dict(st[<< bucket, k >>])
          THEN << ("_bucket" :> bucket) @@ ("_key" :> k) @@ st[<< bucket, k >>] >>
                 \o rest
          ELSE rest

\* keys[:limit]
take(keys, limit) == SubSeq(keys, 1, IF limit < Len(keys) THEN limit ELSE Len(keys))

\* The listing steps of tab_review and tab_export with the keyword filter
\* applied to the keys' objects before the limit
filtered_entries_limit_last(st, bucket, all_keys, start, end, keyword, limit, unreadable) ==
  take(keyword_filter(
         load_entries(st, bucket, filter_keys_by_date(all_keys, start, end),
                      unreadable), keyword), limit)

\* The listing steps of tab_review (admin_app.py 349-352, new.py 269-273) and
\* tab_export (admin_app.py 445-448, new.py 367-370): date filter, [:limit],
\* load_entries, then the keyword filter
filtered_entries(st, bucket, all_keys, start, end, keyword, limit, unreadable) ==
  LET cand_keys == take(filter_keys_by_date(all_keys, start, end), limit)
      entries == load_entries(st, bucket, cand_keys, unreadable)
  IN keyword_filter(entries, keyword)

(***************************************************************************)
(* The model service and call_model                                        *)
(***************************************************************************)

\* extract_text(resp): resp.text stripped when it is truthy, else the texts
\* of the candidates' parts joined by newlines and stripped
extract_text(resp) ==
  IF resp.text # <<>> THEN strip(resp.text)
  ELSE strip(join(resp.parts, << "\n" >>))

\* is_blocked(resp): (some reason was collected, the reasons joined)
is_blocked(resp) ==
  [blocked |-> Len(resp.reasons) > 0, reason |-> join(resp.reasons, << ",", " " >>)]

\* call_model of src/admin_app.py with the fallback's exception swallowed: the
\* empty text is returned
call_model_admin_swallow(svc) ==
  LET text == strip(join(svc.stream.chunks, <<>>)) IN
  IF text # <<>>
  THEN [raised |-> FALSE, text |-> text,
        meta |-> [blocked |-> FALSE, reason |-> <<>>], calls |-> 1]
  ELSE IF svc.plain.raises
  THEN [raised |-> FALSE, text |-> <<>>,
        meta |-> [blocked |-> FALSE, reason |-> <<>>], calls |-> 2]
  ELSE [raised |-> FALSE, text |-> extract_text(svc.plain.resp),
        meta |-> is_blocked(svc.plain.resp), calls |-> 2]

\* call_model of src/admin_app.py.  svc holds what the service answers:
\* svc.stream = [raises, chunks] for generate_content_stream (the chunks
\* received before it raised, if it raises) and svc.plain = [raises, resp]
\* for generate_content.  calls counts the requests made.
call_model_admin(svc) ==
  LET text == strip(join(svc.stream.chunks, <<>>)) IN
  IF text # <<>>
  THEN [raised |-> FALSE, text |-> text,
        meta |-> [blocked |-> FALSE, reason |-> <<>>], calls |-> 1]
  ELSE IF svc.plain.raises
  THEN [raised |-> TRUE, text |-> <<>>,
        meta |-> [blocked |-> FALSE, reason |-> <<>>], calls |-> 2]
  ELSE [raised |-> FALSE, text |-> extract_text(svc.plain.resp),
        meta |-> is_blocked(svc.plain.resp), calls |-> 2]

\* call_model of src/new.py: one generate_content call, resp.text or ""
call_model_new(svc) ==
  IF svc.plain.raises
  THEN [raised |-> TRUE, text |-> <<>>,
        meta |-> [blocked |-> FALSE, reason |-> <<>>], calls |-> 1]
  ELSE [raised |-> FALSE, text |-> svc.plain.resp.text,
        meta |-> [blocked |-> FALSE, reason |-> <<>>], calls |-> 1]

call_model(variant, svc) ==
  IF variant = "admin_app" THEN call_model_admin(svc) ELSE call_model_new(svc)

\* generate_ai_response of src/streamlit_feedback_ai_prototype_ver05.py: the
\* minimal call, whose `resp.text or ""` is returned unless the call (or
\* reading resp.text) raises; then the call with a GenerationConfig, whose
\* exception reaches the caller.  svc.first and svc.second are [raises, text].
generate_ai_response(svc) ==
  IF ~svc.first.raises
  THEN [raised |-> FALSE, text |-> svc.first.text, calls |-> 1]
  ELSE IF svc.second.raises
  THEN [raised |-> TRUE, text |-> <<>>, calls |-> 2]
  ELSE [raised |-> FALSE, text |-> svc.second.text, calls |-> 2]

(***************************************************************************)
(* The handlers of the three tabs                                          *)
(***************************************************************************)

Pad2(n) == << Digit((n \div 10) % 10), Digit(n % 10) >>

\* datetime.utcnow().strftime("%Y-%m-%dT%H:%M:%SZ"); now is [date, H, M, S]
strftime_iso(now) ==
  strftime_ymd(now.date) \o << "T" >> \o Pad2(now.H) \o << ":" >> \o Pad2(now.M)
    \o << ":" >> \o Pad2(now.S) \o << "Z" >>

s_admin == << "a", "d", "m", "i", "n" >>

\* The "AI 초안 생성" handler of tab_gen.  Returns the new admin_last_ai and
\* the messages shown.
generate_draft(variant, last_ai, prompt, svc) ==
  IF strip(prompt) = <<>>
  THEN [last_ai |-> last_ai, msgs |-> {"warning_enter_prompt"}, calls |-> 0,
        sent |-> FALSE]
  ELSE LET r == call_model(variant, svc) IN
       IF r.raised
       THEN [last_ai |-> last_ai, msgs |-> {"error_generate_failed"},
             calls |-> r.calls, sent |-> TRUE]
       ELSE IF variant = "admin_app" /\ r.text = <<>>
       THEN [last_ai |-> <<>>, msgs |-> {"warning_empty_response"},
             calls |-> r.calls, sent |-> TRUE]
       ELSE [last_ai |-> r.text, msgs |-> {"success_draft"}, calls |-> r.calls,
             sent |-> TRUE]

\* The record the "승인 저장(새 항목)" handler of tab_gen builds
fresh_record(g, prompt, last_ai, approved, now) ==
  [timestamp |-> strftime_iso(now), prompt |-> prompt, ai_response |-> last_ai,
   approved_response |-> strip(approved), approved_by |-> s_admin,
   approved_at |-> strftime_iso(now), used_model |-> << "E" >>,
   review_notes |-> <<>>]

\* The "승인 저장(새 항목)" handler of tab_gen: build the record, mint the key
\* CUR_PREFIX/day/hex10.json, upload; any exception is shown as an error
fresh_save(st, g, prompt, last_ai, approved, upload_fails, now, hex10) ==
  LET out == fresh_record(g, prompt, last_ai, approved, now)
      key == g.CUR_PREFIX \o Slash \o strftime_ymd(now.date) \o Slash
               \o hex10 \o DotJson
  IN IF upload_fails \/ CuratedBucket(g) = <<>>
     THEN [store |-> st, msgs |-> {"error_save_failed"}, out |-> out,
           out_key |-> key, wrote |-> FALSE]
     ELSE [store |-> upload_json(st, CuratedBucket(g), key, out),
           msgs |-> {"success_saved"}, out |-> out, out_key |-> key,
           wrote |-> TRUE]

\* The dict of the "승인 저장" handler with the approved text stored as typed
approved_record_untrimmed(item, approved_text, notes, now) ==
  ("approved_response" :> approved_text)
    @@ ("approved_by" :> s_admin)
    @@ ("approved_at" :> strftime_iso(now))
    @@ ("review_notes" :> notes)
    @@ ("source_raw_bucket" :> item["_bucket"])
    @@ ("source_raw_key" :> item["_key"])
    @@ item

\* The dict the "승인 저장" handler of tab_review builds: {**item, ...}
approved_record(item, approved_text, notes, now) ==
  ("approved_response" :> strip(approved_text))
    @@ ("approved_by" :> s_admin)
    @@ ("approved_at" :> strftime_iso(now))
    @@ ("review_notes" :> notes)
    @@ ("source_raw_bucket" :> item["_bucket"])
    @@ ("source_raw_key" :> item["_key"])
    @@ item

\* The "승인 저장" handler with the delete's exception not caught apart: a
\* failed delete is reported as a failed save
approve_save_delete_fatal(st, g, item, approved_text, notes, delete_after, upload_fails, delete_fails, now, hex10) ==
  LET out == approved_record(item, approved_text, notes, now)
      out_key == curated_key_from_raw(Get(item, "_key", <<>>), g.CUR_PREFIX,
                                      strftime_ymd(now.date), hex10)
      st1 == upload_json(st, CuratedBucket(g), out_key, out)
      gone == << item["_bucket"], item["_key"] >> \notin DOMAIN st1
  IN IF upload_fails \/ CuratedBucket(g) = <<>>
     THEN [store |-> st, msgs |-> {"error_save_failed"}, out |-> out,
           out_key |-> out_key, wrote |-> FALSE, delete_failed |-> FALSE,
           deleted |-> FALSE]
     ELSE IF ~delete_after
     THEN [store |-> st1, msgs |-> {"success_saved"}, out |-> out,
           out_key |-> out_key, wrote |-> TRUE, delete_failed |-> FALSE,
           deleted |-> FALSE]
     ELSE IF delete_fails \/ gone
     THEN [store |-> st1, msgs |-> {"success_saved", "error_save_failed"},
           out |-> out, out_key |-> out_key, wrote |-> TRUE,
           delete_failed |-> TRUE, deleted |-> FALSE]
     ELSE [store |-> delete_object(st1, item["_bucket"], item["_key"]),
           msgs |-> {"success_saved", "info_deleted"}, out |-> out,
           out_key |-> out_key, wrote |-> TRUE, delete_failed |-> FALSE,
           deleted |-> TRUE]

\* The "승인 저장" handler of tab_review (admin_app.py 391-413, new.py
\* 312-334): build out, derive out_key, upload; then, when delete_after is
\* ticked, delete the raw object, a failure of which is only warned about.
\* A failed upload is caught by the outer except and shown as an error.
approve_save(st, g, item, approved_text, notes, delete_after, upload_fails, delete_fails, now, hex10) ==
  LET out == approved_record(item, approved_text, notes, now)
      out_key == curated_key_from_raw(Get(item, "_key", <<>>), g.CUR_PREFIX,
                                      strftime_ymd(now.date), hex10)
      st1 == upload_json(st, CuratedBucket(g), out_key, out)
      gone == << item["_bucket"], item["_key"] >> \notin DOMAIN st1
  IN IF upload_fails \/ CuratedBucket(g) = <<>>
     THEN [store |-> st, msgs |-> {"error_save_failed"}, out |-> out,
           out_key |-> out_key, wrote |-> FALSE, delete_failed |-> FALSE,
           deleted |-> FALSE]
     ELSE IF ~delete_after
     THEN [store |-> st1, msgs |-> {"success_saved"}, out |-> out,
           out_key |-> out_key, wrote |-> TRUE, delete_failed |-> FALSE,
           deleted |-> FALSE]
     ELSE IF delete_fails \/ gone
     THEN [store |-> st1, msgs |-> {"success_saved", "warning_delete_failed"},
           out |-> out, out_key |-> out_key, wrote |-> TRUE,
           delete_failed |-> TRUE, deleted |-> FALSE]
     ELSE [store |-> delete_object(st1, item["_bucket"], item["_key"]),
           msgs |-> {"success_saved", "info_deleted"}, out |-> out,
           out_key |-> out_key, wrote |-> TRUE, delete_failed |-> FALSE,
           deleted |-> TRUE]

\* str.replace("\n", " ")
newlines_to_spaces(s) == [i \in 1..Len(s) |-> IF s[i] = "\n" THEN " " ELSE s[i]]

\* label_of(e): the prompt is cut to 36 characters (40 in new.py)
label_of(variant, e) ==
  LET d == str_or(Get(e, "timestamp", <<>>), key_date(Get(e, "_key", <<>>)))
      p == newlines_to_spaces(GetOrEmpty(e, "prompt"))
      cut == IF variant = "admin_app" THEN 36 ELSE 40
      shown == IF Len(p) > cut THEN SubSeq(p, 1, cut) \o << "ELL" >> ELSE p
  IN d \o << " ", "|", " " >> \o shown

\* The placeholder option "(선택)", one token that no label equals
Placeholder == << "(select)" >>

\* options = ["(선택)"] + [label_of(e) for e in entries]
options_of(variant, entries) ==
  << Placeholder >> \o [i \in 1..Len(entries) |-> label_of(variant, entries[i])]

\* list.index(x) as a 1-based position: the first occurrence
index_of(xs, x) == CHOOSE i \in 1..Len(xs) : xs[i] = x /\ \A j \in 1..(i - 1) : xs[j] # x

\* item = entries[options.index(sel) - 1] for sel = options[pos], pos the
\* (1-based) position the reviewer picked in the select box
selected_item(variant, entries, pos) ==
  LET options == options_of(variant, entries) IN
  entries[index_of(options, options[pos]) - 1]

\* The item of the run for the select box value sel: none for "(선택)"
review_item(variant, entries, sel) ==
  IF sel = Placeholder THEN <<>>
  ELSE entries[index_of(options_of(variant, entries), sel) - 1]

\* "◀ 이전": idx = options.index(sel) - 1; if idx - 1 >= 0 the select box is
\* set to options[idx].  Python's 0-based options[n] is options[n + 1] here.
prev_button(variant, entries, sel) ==
  LET options == options_of(variant, entries)
      idx == index_of(options, sel) - 2
  IN [guard |-> idx - 1 >= 0, at |-> idx,
      sel |-> IF idx - 1 >= 0 THEN options[idx + 1] ELSE sel]

\* "다음 ▶": if idx + 1 < len(entries) the select box is set to options[idx+2]
next_button(variant, entries, sel) ==
  LET options == options_of(variant, entries)
      idx == index_of(options, sel) - 2
  IN [guard |-> idx + 1 < Len(entries), at |-> idx + 2,
      sel |-> IF idx + 1 < Len(entries) THEN options[idx + 3] ELSE sel]

(***************************************************************************)
(* Bounds and sample data                                                  *)
(***************************************************************************)

\* Uploads attempted in one behaviour
MaxWrites == 2
\* Seconds that pass in one Tick
TickStep == 60
\* The "최대 로드 수" widget offers 50, 100, ... (min_value=50, step=50).  The
\* model scales 50 keys down to LimitUnit keys, so that a listing longer than
\* the limit fits the store of the model.
LimitUnit == 1
\* Longest list of keys or entries handed to a pure function
MaxKeys == 2
MaxEntries == 2

b1 == << "b", "1" >>
b2 == << "b", "2" >>

D1 == [y |-> 2025, m |-> 1, d |-> 1]
D2 == [y |-> 2025, m |-> 1, d |-> 2]
D9 == [y |-> 2024, m |-> 12, d |-> 31]
D10 == [y |-> 2025, m |-> 10, d |-> 1]

\* The clock readings of datetime.utcnow()
UtcNowSamples == {[date |-> D2, H |-> 9, M |-> 30, S |-> 0]}

\* uuid.uuid4().hex[:10] of the n-th minted key: ten hex digits, all distinct
HexId(n) == << "a", "1", "b", "2", "c", "3", "d", "4", "e", Digit(n % 10) >>

\* st.secrets of the deployments explored: separate buckets; one shared
\* bucket (cur_bucket_name absent, prefixes given with blanks and slashes);
\* a nested curated prefix; the curated prefix equal to the raw one
SecretsSamples ==
  { [raw_bucket_name |-> b1, raw_prefix |-> << "r", "a", "w" >>,
     cur_bucket_name |-> b2, cur_prefix |-> << "c", "u", "r" >>],
    [raw_bucket_name |-> b1, cur_prefix |-> << " ", "c", "u", "r", "/" >>],
    [raw_bucket_name |-> b1, cur_prefix |-> << "d", "/", "c", "u", "r" >>],
    [raw_bucket_name |-> b1, cur_bucket_name |-> b1,
     cur_prefix |-> << "r", "a", "w" >>] }

Variants == {"admin_app", "new"}

\* The deployments explored: admin_app.py under every sample of the secrets,
\* new.py under the shared bucket
Deployments ==
  {Globals("admin_app", s) : s \in SecretsSamples}
    \cup {Globals("new", s) : s \in {t \in SecretsSamples : "cur_bucket_name" \notin DOMAIN t}}

f_a == << "a", ".", "j", "s", "o", "n" >>
f_b == << "b", ".", "j", "s", "o", "n" >>
f_c == << "c", ".", "j", "s", "o", "n" >>

\* The raw submissions the external learner application has stored under
\* raw_prefix: two under date partitions, one directly under the prefix
RawObjects(g) ==
  (<< g.RAW_BUCKET, g.RAW_PREFIX \o Slash \o strftime_ymd(D2) \o Slash \o f_a >>
     :> [timestamp |-> << "t", "1" >>, prompt |-> << "Q" >>,
         ai_response |-> << "r" >>])
  @@
  (<< g.RAW_BUCKET, g.RAW_PREFIX \o Slash \o strftime_ymd(D1) \o Slash \o f_b >>
     :> [prompt |-> << "k", " ", "Q" >>, ai_response |-> << "r" >>])
  @@
  (<< g.RAW_BUCKET, g.RAW_PREFIX \o Slash \o f_c >>
     :> [timestamp |-> << "t", "3" >>, prompt |-> << "Q" >>,
         ai_response |-> << "r" >>])

\* The filter widgets' values: start_date, end_date, keyword, limit
FilterSamples ==
  { [start |-> D1, end |-> D2, keyword |-> <<>>, limit |-> 2 * LimitUnit],
    [start |-> D1, end |-> D2, keyword |-> << "k" >>, limit |-> LimitUnit],
    [start |-> D1, end |-> D2, keyword |-> << "K" >>, limit |-> 2 * LimitUnit],
    [start |-> D2, end |-> D2, keyword |-> << " " >>, limit |-> LimitUnit] }

\* What the store does during one script run: a failing listing, upload or
\* delete, or reads that fail for one name
NoFault == [list |-> FALSE, upload |-> FALSE, delete |-> FALSE, unreadable |-> {}]
FaultSamples(g) ==
  { NoFault,
    [NoFault EXCEPT !.list = TRUE],
    [NoFault EXCEPT !.upload = TRUE],
    [NoFault EXCEPT !.delete = TRUE],
    [NoFault EXCEPT !.unreadable =
       {g.RAW_PREFIX \o Slash \o strftime_ymd(D2) \o Slash \o f_a}] }

\* The texts typed into the approval text areas
ApprovedTextSamples == { << " " >>, << " ", "A", " " >> }
NotesSamples == { << "o", "k" >> }
PromptSamples == { << " " >>, << "p" >> }

\* What the model service answers to one generate action: the stream
\* delivers text; it raises at once and the plain call answers; it delivers
\* nothing and the plain call is blocked; both raise; the stream raises after
\* a chunk; the stream delivers blanks and the plain call answers nothing
NoResp == [text |-> <<>>, parts |-> <<>>, reasons |-> <<>>]
SvcSamples ==
  { [stream |-> [raises |-> FALSE, chunks |-> << << "d" >>, << " " >> >>],
     plain |-> [raises |-> FALSE, resp |-> [NoResp EXCEPT !.text = << "e" >>]]],
    [stream |-> [raises |-> TRUE, chunks |-> <<>>],
     plain |-> [raises |-> FALSE, resp |-> [NoResp EXCEPT !.text = << "e" >>]]],
    [stream |-> [raises |-> FALSE, chunks |-> <<>>],
     plain |-> [raises |-> FALSE,
                resp |-> [NoResp EXCEPT !.reasons = << << "S" >> >>]]],
    [stream |-> [raises |-> TRUE, chunks |-> <<>>],
     plain |-> [raises |-> TRUE, resp |-> NoResp]],
    [stream |-> [raises |-> TRUE, chunks |-> << << "d" >> >>],
     plain |-> [raises |-> FALSE, resp |-> [NoResp EXCEPT !.text = << "e" >>]]],
    [stream |-> [raises |-> FALSE, chunks |-> << << " " >> >>],
     plain |-> [raises |-> FALSE, resp |-> NoResp]] }

\* What the model service answers to the two calls of the learner application
LearnerSvcSamples ==
  { [first |-> [raises |-> FALSE, text |-> << "d" >>],
     second |-> [raises |-> FALSE, text |-> << "e" >>]],
    [first |-> [raises |-> FALSE, text |-> <<>>],
     second |-> [raises |-> FALSE, text |-> << "e" >>]],
    [first |-> [raises |-> TRUE, text |-> <<>>],
     second |-> [raises |-> FALSE, text |-> << "e" >>]],
    [first |-> [raises |-> TRUE, text |-> <<>>],
     second |-> [raises |-> FALSE, text |-> <<>>]],
    [first |-> [raises |-> TRUE, text |-> <<>>],
     second |-> [raises |-> TRUE, text |-> <<>>]] }

(***************************************************************************)
(* The state                                                               *)
(***************************************************************************)

VARIABLES
  cfg,        \* the module-level globals of the running application
  store,      \* the object store: <<bucket, name>> -> dict
  cache,      \* st.cache_data of list_keys: <<bucket, prefix>> -> entry
  sess,       \* st.session_state and the value of the prompt box, with the
              \* ghost draft_prompt: the prompt call_model was given when
              \* it produced the admin_last_ai held now, and the ghost
              \* review_pos: the position in entries the reviewer chose in
              \* the select box and moved from with the two buttons
  ui,         \* what the last script run showed: messages, uncaught exception
  last,       \* ghost: what the last script run did
  last_write, \* ghost: <<bucket, name>> -> the dict of the latest upload to it
  nwrites,    \* uploads attempted so far
  nminted,    \* uuid4 values drawn so far
  fcall       \* the last call of a helper function: [op, arguments, out]

vars == << cfg, store, cache, sess, ui, last, last_write, nwrites, nminted, fcall >>

NoFilter == [start |-> D1, end |-> D1, keyword |-> <<>>, limit |-> 0]
NoListing == [keys |-> <<>>, raised |-> FALSE, warned |-> FALSE,
              contacted |-> FALSE, failed |-> FALSE]
NoLast ==
  [action |-> "none", filter |-> NoFilter, unreadable |-> {},
   raw_list |-> NoListing, cur_list |-> NoListing, shown |-> <<>>,
   item |-> <<>>, approved_text |-> <<>>, delete_after |-> FALSE,
   out_key |-> <<>>, out |-> <<>>, wrote |-> FALSE, delete_failed |-> FALSE,
   deleted |-> FALSE, overwrote |-> FALSE, calls |-> 0]

\* The application has just been started under the deployment g on the store st
Started(g, st) ==
  /\ cfg = g
  /\ store = st
  /\ cache = <<>>
  /\ sess = [admin_gen_prompt |-> <<>>, admin_last_ai |-> <<>>,
             draft_prompt |-> <<>>, review_select |-> Placeholder,
             review_pos |-> 0]
  /\ ui = [msgs |-> {}, crashed |-> FALSE]
  /\ last = NoLast
  /\ last_write = <<>>
  /\ nwrites = 0
  /\ nminted = 0
  /\ fcall = [op |-> "none"]

(***************************************************************************)
(* One script run.  Streamlit runs the whole script on every interaction:  *)
(* tab_gen, then tab_review (which lists the raw keys), then tab_export    *)
(* (which lists the curated keys).  An uncaught exception ends the run.    *)
(***************************************************************************)

\* all_keys = list_keys(RAW_BUCKET, RAW_PREFIX), reached only `if RAW_BUCKET`
raw_listing(g, c, st, fault) ==
  IF g.RAW_BUCKET = <<>>
  THEN [keys |-> <<>>, cache |-> c, raised |-> FALSE, warned |-> FALSE,
        contacted |-> FALSE]
  ELSE list_keys(g.variant, c, st, g.RAW_BUCKET, g.RAW_PREFIX, fault.list)

\* ckeys_all = list_keys(CUR_BUCKET or RAW_BUCKET, CUR_PREFIX), reached only
\* `if CUR_BUCKET or RAW_BUCKET`
cur_listing(g, c, st, fault) ==
  IF CuratedBucket(g) = <<>>
  THEN [keys |-> <<>>, cache |-> c, raised |-> FALSE, warned |-> FALSE,
        contacted |-> FALSE]
  ELSE list_keys(g.variant, c, st, CuratedBucket(g), g.CUR_PREFIX, fault.list)

\* What a listing did, for the ghost
Listed(l, fault) ==
  [keys |-> l.keys, raised |-> l.raised, warned |-> l.warned,
   contacted |-> l.contacted, failed |-> l.contacted /\ fault.list]

ListingMsgs(l) == IF l.warned THEN {"warning_list_failed"} ELSE {}

\* Entries of the cache that are still live after dt more seconds
aged(c, dt) ==
  LET live == {q \in DOMAIN c : c[q].age + dt < TTL} IN
  [q \in live |-> [c[q] EXCEPT !.age = @ + dt]]

\* Time passes; expired entries of the cache are dropped
Tick ==
  /\ cache' = aged(cache, TickStep)
  /\ UNCHANGED << cfg, store, sess, ui, last, last_write, nwrites, nminted, fcall >>

\* The messages and the exception of a run whose two listings are l1 and l2
\* (l2 is reached only when l1 did not raise)
RunUi(msgs, l1, l2) ==
  [msgs |-> msgs \cup (IF l1.raised THEN {} ELSE ListingMsgs(l1))
                 \cup (IF l1.raised \/ l2.raised THEN {} ELSE ListingMsgs(l2)),
   crashed |-> l1.raised \/ l2.raised]

RunCache(l1, l2) == IF l1.raised THEN l1.cache ELSE l2.cache

\* The ghost's account of the two listings of a run
RunLast(fault, l1, l2) ==
  [NoLast EXCEPT !.raw_list = Listed(l1, fault),
                 !.cur_list = IF l1.raised THEN NoListing ELSE Listed(l2, fault)]

(***************************************************************************)
(* The actions.  sc is the scope of an exploration: the widget values      *)
(* (sc.filters, sc.texts, sc.prompts), the faults of the store (sc.faults) *)
(* and the answers of the model service (sc.svcs) it draws from.           *)
(***************************************************************************)

\* For the ghost: the upload of the save r replaced an object of the store st
\* by a different one
Overwrites(st, g, r) ==
  /\ r.wrote
  /\ << CuratedBucket(g), r.out_key >> \in DOMAIN st
  /\ st[<< CuratedBucket(g), r.out_key >>] # r.out

\* A run with no button pressed, seen on the review tab: the raw keys are
\* listed, filtered and loaded
BrowseReview(sc) ==
  \E fault \in sc.faults :
  \E l1 \in {raw_listing(cfg, cache, store, fault)} :
  \E l2 \in {cur_listing(cfg, l1.cache, store, fault)} :
  \E f \in sc.filters :
  \E entries \in {filtered_entries(store, cfg.RAW_BUCKET, l1.keys, f.start, f.end,
                                   f.keyword, f.limit, fault.unreadable)} :
     /\ cfg.RAW_BUCKET # <<>>
     /\ cache' = RunCache(l1, l2)
     /\ ui' = RunUi({}, l1, l2)
     /\ last' = [RunLast(fault, l1, l2) EXCEPT
                   !.action = "BrowseReview", !.filter = f,
                   !.unreadable = fault.unreadable,
                   !.shown = IF l1.raised THEN <<>> ELSE entries]
     /\ UNCHANGED << cfg, store, sess, last_write, nwrites, nminted, fcall >>

\* A run with no button pressed, seen on the export tab: the curated keys are
\* listed, filtered and loaded
BrowseExport(sc) ==
  \E fault \in sc.faults :
  \E l1 \in {raw_listing(cfg, cache, store, fault)} :
  \E l2 \in {cur_listing(cfg, l1.cache, store, fault)} :
  \E f \in sc.filters :
  \E centries \in {filtered_entries(store, CuratedBucket(cfg), l2.keys, f.start,
                                    f.end, f.keyword, f.limit, fault.unreadable)} :
     /\ CuratedBucket(cfg) # <<>>
     /\ cache' = RunCache(l1, l2)
     /\ ui' = RunUi({}, l1, l2)
     /\ last' = [RunLast(fault, l1, l2) EXCEPT
                   !.action = "BrowseExport", !.filter = f,
                   !.unreadable = fault.unreadable,
                   !.shown = IF l1.raised \/ l2.raised THEN <<>> ELSE centries]
     /\ UNCHANGED << cfg, store, sess, last_write, nwrites, nminted, fcall >>

\* The reviewer types a prompt and presses "AI 초안 생성"
GenGenerate(sc) ==
  \E fault \in sc.faults :
  \E l1 \in {raw_listing(cfg, cache, store, fault)} :
  \E l2 \in {cur_listing(cfg, l1.cache, store, fault)} :
  \E prompt \in sc.prompts, svc \in sc.svcs :
  \E r \in {generate_draft(cfg.variant, sess.admin_last_ai, prompt, svc)} :
     /\ sess' = [sess EXCEPT
                    !.admin_gen_prompt = prompt, !.admin_last_ai = r.last_ai,
                    !.draft_prompt =
                      IF "success_draft" \in r.msgs THEN prompt
                      ELSE IF "warning_empty_response" \in r.msgs THEN <<>>
                      ELSE @]
     /\ cache' = RunCache(l1, l2)
     /\ ui' = RunUi(r.msgs, l1, l2)
     /\ last' = [RunLast(fault, l1, l2) EXCEPT
                   !.action = "GenGenerate", !.calls = r.calls]
     /\ UNCHANGED << cfg, store, last_write, nwrites, nminted, fcall >>

\* The reviewer presses "승인 저장(새 항목)", shown while admin_last_ai is set;
\* prompt is what the prompt box holds at that moment
GenSave(sc) ==
  /\ sess.admin_last_ai # <<>>
  /\ nwrites < MaxWrites
  /\ \E prompt \in sc.prompts :
     \E approved \in sc.texts, fault \in sc.faults, now \in UtcNowSamples :
     \E r \in {fresh_save(store, cfg, prompt, sess.admin_last_ai,
                          approved, fault.upload, now, HexId(nminted))} :
     \E l1 \in {raw_listing(cfg, cache, r.store, fault)} :
     \E l2 \in {cur_listing(cfg, l1.cache, r.store, fault)} :
       /\ store' = r.store
       /\ nminted' = nminted + 1
       /\ nwrites' = nwrites + 1
       /\ last_write' =
            IF r.wrote
            THEN (<< CuratedBucket(cfg), r.out_key >> :> r.out) @@ last_write
            ELSE last_write
       /\ cache' = RunCache(l1, l2)
       /\ ui' = RunUi(r.msgs, l1, l2)
       /\ last' = [RunLast(fault, l1, l2) EXCEPT
                     !.action = "GenSave", !.approved_text = approved,
                     !.out_key = r.out_key, !.out = r.out, !.wrote = r.wrote,
                     !.overwrote = Overwrites(store, cfg, r)]
       /\ sess' = [sess EXCEPT !.admin_gen_prompt = prompt]
       /\ UNCHANGED << cfg, fcall >>

\* The reviewer picks the option at position pos of the select box, fills in
\* the approval widgets and presses "승인 저장"
ReviewApprove(sc) ==
  /\ cfg.RAW_BUCKET # <<>>
  /\ nwrites < MaxWrites
  /\ \E fault \in sc.faults, now \in UtcNowSamples :
     \E l1 \in {raw_listing(cfg, cache, store, fault)} :
     \E f \in sc.filters :
     \E entries \in {filtered_entries(store, cfg.RAW_BUCKET, l1.keys, f.start,
                                      f.end, f.keyword, f.limit, fault.unreadable)} :
     \E pos \in 2..(Len(entries) + 1) :
     \E item \in {selected_item(cfg.variant, entries, pos)} :
     \E approved_text \in sc.texts, notes \in NotesSamples,
        delete_after \in BOOLEAN :
     \E r \in {approve_save(store, cfg, item, approved_text, notes, delete_after,
                            fault.upload, fault.delete, now, HexId(nminted))} :
     \E l2 \in {cur_listing(cfg, l1.cache, r.store, fault)} :
       /\ ~l1.raised
       /\ store' = r.store
       /\ nminted' = IF Len(split_max(Get(item, "_key", <<>>), "/", 2)) < 3
                     THEN nminted + 1 ELSE nminted
       /\ nwrites' = nwrites + 1
       /\ last_write' =
            IF r.wrote
            THEN (<< CuratedBucket(cfg), r.out_key >> :> r.out) @@ last_write
            ELSE last_write
       /\ cache' = l2.cache
       /\ ui' = RunUi(r.msgs, l1, l2)
       /\ last' = [RunLast(fault, l1, l2) EXCEPT
                     !.action = "ReviewApprove", !.filter = f,
                     !.unreadable = fault.unreadable, !.shown = entries,
                     !.item = item, !.approved_text = approved_text,
                     !.delete_after = delete_after, !.out_key = r.out_key,
                     !.out = r.out, !.wrote = r.wrote,
                     !.delete_failed = r.delete_failed, !.deleted = r.deleted,
                     !.overwrote = Overwrites(store, cfg, r)]
       /\ UNCHANGED << cfg, sess, fcall >>

(***************************************************************************)
(* Calls of the helper functions on sample arguments                       *)
(***************************************************************************)

\* The sequences over S of length at most n
SeqsUpTo(S, n) == UNION {[1..k -> S] : k \in 0..n}

k_a == s_raw_submissions \o Slash \o strftime_ymd(D2) \o Slash \o f_a
k_b == s_raw_submissions \o Slash \o strftime_ymd(D1) \o Slash \o f_b

\* Keys: two well-formed ones, one dated outside 2025-01, one of four
\* segments, one of two segments, one of one segment, one with an empty
\* second segment, and the empty key
KeySamples ==
  { k_a, k_b,
    s_raw_submissions \o Slash \o strftime_ymd(D9) \o Slash \o f_a,
    s_raw_submissions \o Slash \o strftime_ymd(D10) \o Slash \o << "x" >>
      \o Slash \o f_a,
    s_raw_submissions \o Slash \o f_c,
    f_c,
    s_raw_submissions \o Slash \o Slash \o f_b,
    <<>> }

\* Date ranges start <= end
RangeSamples ==
  { [start |-> D1, end |-> D2], [start |-> D2, end |-> D2],
    [start |-> D9, end |-> D10] }

\* Entries: a plain one; a whitespace-only prompt; a whitespace-only
\* approved_response; a keyword split over two fields; no prompt at all;
\* an approved_response with blanks around it
EntrySamples ==
  { [prompt |-> << "Q" >>, ai_response |-> << "r" >>],
    [prompt |-> << " " >>, ai_response |-> << "r" >>,
     approved_response |-> << "A" >>],
    [prompt |-> << "Q", " " >>, ai_response |-> << "r" >>,
     approved_response |-> << " " >>],
    [prompt |-> << "a" >>, ai_response |-> << "B" >>],
    [ai_response |-> << "r" >>, review_notes |-> << "q" >>],
    [prompt |-> << "\n", "Q" >>, ai_response |-> <<>>,
     approved_response |-> << " ", "A", " " >>] }

KeywordSamples ==
  { <<>>, << " " >>, << "q" >>, << "a", "b" >>, << "Q", " " >>, << "z" >> }

CallFilterKeys ==
  /\ fcall.op = "none"
  /\ \E keys \in SeqsUpTo(KeySamples, MaxKeys), r \in RangeSamples :
       /\ fcall' = [op |-> "filter_keys_by_date", keys |-> keys,
                    start |-> r.start, end |-> r.end,
                    out |-> filter_keys_by_date(keys, r.start, r.end)]
       /\ UNCHANGED << cfg, store, cache, sess, ui, last, last_write, nwrites, nminted >>

CallCuratedKey ==
  /\ fcall.op = "none"
  /\ \E raw_key \in KeySamples, now \in UtcNowSamples, n \in 0..1 :
       /\ fcall' = [op |-> "curated_key_from_raw", raw_key |-> raw_key,
                    cur_prefix |-> cfg.CUR_PREFIX,
                    day |-> strftime_ymd(now.date), hex10 |-> HexId(n),
                    out |-> curated_key_from_raw(raw_key, cfg.CUR_PREFIX,
                                                 strftime_ymd(now.date), HexId(n))]
       /\ UNCHANGED << cfg, store, cache, sess, ui, last, last_write, nwrites, nminted >>

CallToJsonl ==
  /\ fcall.op = "none"
  /\ \E entries \in SeqsUpTo(EntrySamples, MaxEntries) :
       /\ fcall' = [op |-> "to_jsonl_lines", entries |-> entries,
                    out |-> to_jsonl_lines(entries)]
       /\ UNCHANGED << cfg, store, cache, sess, ui, last, last_write, nwrites, nminted >>

CallKeywordFilter ==
  /\ fcall.op = "none"
  /\ \E entries \in SeqsUpTo(EntrySamples, MaxEntries), keyword \in KeywordSamples :
       /\ fcall' = [op |-> "keyword_filter", entries |-> entries,
                    keyword |-> keyword, out |-> keyword_filter(entries, keyword)]
       /\ UNCHANGED << cfg, store, cache, sess, ui, last, last_write, nwrites, nminted >>

\* Objects given to load_entries: a submission, an object whose JSON text is
\* an array, and a record stored with the tags of an earlier load
k_c == s_raw_submissions \o Slash \o f_c
k_none == s_raw_submissions \o Slash \o << "x" >>
LoadStore ==
  (<< b1, k_a >> :> [prompt |-> << "Q" >>, ai_response |-> << "r" >>])
  @@ (<< b1, k_b >> :> NotADict)
  @@ (<< b1, k_c >> :> [prompt |-> << "Q" >>, _bucket |-> b2, _key |-> k_a])
LoadKeySamples == SeqsUpTo({k_a, k_b, k_c, k_none}, MaxKeys)
UnreadableSamples == { {}, {k_a} }

CallLoadEntries ==
  /\ fcall.op = "none"
  /\ \E bucket \in {b1, b2}, keys \in LoadKeySamples, unreadable \in UnreadableSamples :
       /\ fcall' = [op |-> "load_entries", bucket |-> bucket, keys |-> keys,
                    unreadable |-> unreadable,
                    out |-> load_entries(LoadStore, bucket, keys, unreadable)]
       /\ UNCHANGED << cfg, store, cache, sess, ui, last, last_write, nwrites, nminted >>

\* Objects listed by list_keys: dated submissions of four days, a name
\* directly under the prefix, names that do not end in .json or lie under
\* another prefix, and a name in another bucket
ListedObject == [prompt |-> << "Q" >>]
ListStore ==
  [r \in ({b1} \X ({s_raw_submissions \o Slash \o strftime_ymd(d) \o Slash \o f_a :
                        d \in {D9, D1, D10}}
                    \cup {k_a, k_c, k_none,
                          s_raw_submissions \o << "z" >> \o Slash \o f_a}))
          \cup {<< b2, k_b >>} |-> ListedObject]

\* The cache before the call: nothing; a live entry stored when the prefix
\* held one name; the same entry at the end of its time to live
ListCacheSamples ==
  { << >>,
    (<< b1, s_raw_submissions >> :> [keys |-> << k_a >>, age |-> 0, warned |-> FALSE]),
    (<< b1, s_raw_submissions >> :> [keys |-> << k_a >>, age |-> TTL, warned |-> FALSE]) }

CallListKeys ==
  /\ fcall.op = "none"
  /\ \E variant \in Variants, c \in ListCacheSamples, bucket \in {<<>>, b1, b2},
        prefix \in {<<>>, s_raw_submissions, s_curated}, store_fails \in BOOLEAN :
       /\ fcall' = [op |-> "list_keys", variant |-> variant, cache |-> c,
                    bucket |-> bucket, prefix |-> prefix, store_fails |-> store_fails,
                    out |-> list_keys(variant, c, ListStore, bucket, prefix, store_fails)]
       /\ UNCHANGED << cfg, store, cache, sess, ui, last, last_write, nwrites, nminted >>

CallModel ==
  /\ fcall.op = "none"
  /\ \E variant \in Variants, svc \in SvcSamples :
       /\ fcall' = [op |-> "call_model", variant |-> variant, svc |-> svc,
                    out |-> call_model(variant, svc)]
       /\ UNCHANGED << cfg, store, cache, sess, ui, last, last_write, nwrites, nminted >>

CallGenerateAiResponse ==
  /\ fcall.op = "none"
  /\ \E svc \in LearnerSvcSamples :
       /\ fcall' = [op |-> "generate_ai_response", svc |-> svc,
                    out |-> generate_ai_response(svc)]
       /\ UNCHANGED << cfg, store, cache, sess, ui, last, last_write, nwrites, nminted >>

\* The call returns
Return ==
  /\ fcall.op # "none"
  /\ fcall' = [op |-> "none"]
  /\ UNCHANGED << cfg, store, cache, sess, ui, last, last_write, nwrites, nminted >>

(***************************************************************************)
(* The specifications                                                      *)
(***************************************************************************)

\* Curated records of earlier sessions: the approved copies of the two dated
\* raw submissions
CuratedObjects(g) ==
  (<< CuratedBucket(g), g.CUR_PREFIX \o Slash \o strftime_ymd(D2) \o Slash \o f_a >>
     :> [timestamp |-> << "t", "1" >>, prompt |-> << "Q" >>,
         ai_response |-> << "r" >>, approved_response |-> << "A" >>])
  @@
  (<< CuratedBucket(g), g.CUR_PREFIX \o Slash \o strftime_ymd(D1) \o Slash \o f_b >>
     :> [prompt |-> << "k", " ", "Q" >>, ai_response |-> << "r" >>,
         approved_response |-> << "B" >>])

\* Browsing: every filter and every fault of the store
BrowseScope(g) ==
  [filters |-> FilterSamples, faults |-> FaultSamples(g), texts |-> {},
   prompts |-> {}, svcs |-> {}]

\* Saving: both dated submissions listed, the store failing a listing, an
\* upload or a delete, a blank and a non-blank approved text, one successful draft
SaveScope(g) ==
  [filters |-> {[start |-> D1, end |-> D2, keyword |-> <<>>,
                 limit |-> 2 * LimitUnit]},
   faults |-> {fl \in FaultSamples(g) : fl.unreadable = {}},
   texts |-> ApprovedTextSamples,
   prompts |-> {p \in PromptSamples : strip(p) # <<>>},
   svcs |-> {v \in SvcSamples : ~v.stream.raises /\ v.stream.chunks # <<>>}]

\* The helper functions, called on the sample arguments
InitFn == \E g \in Deployments : Started(g, RawObjects(g))

NextFn ==
  \/ CallFilterKeys
  \/ CallCuratedKey
  \/ CallToJsonl
  \/ CallKeywordFilter
  \/ CallModel
  \/ CallListKeys
  \/ CallLoadEntries
  \/ CallGenerateAiResponse
  \/ Return

SpecFn == InitFn /\ [][NextFn]_vars

\* The review and export tabs browsed, over a store that holds raw
\* submissions and curated records
InitBrowse == \E g \in Deployments : Started(g, CuratedObjects(g) @@ RawObjects(g))

NextBrowse ==
  \/ Tick
  \/ BrowseReview(BrowseScope(cfg))
  \/ BrowseExport(BrowseScope(cfg))

SpecBrowse == InitBrowse /\ [][NextBrowse]_vars

\* Drafts generated and records saved from the two tabs, over a store that
\* holds the raw submissions
InitSave == \E g \in Deployments : Started(g, RawObjects(g))

NextSave ==
  \/ Tick
  \/ GenGenerate(SaveScope(cfg))
  \/ GenSave(SaveScope(cfg))
  \/ ReviewApprove(SaveScope(cfg))

SpecSave == InitSave /\ [][NextSave]_vars

\* The entries of the review tab for the filter f, as every run computes them
review_entries(g, l1, st, f, fault) ==
  filtered_entries(st, g.RAW_BUCKET, l1.keys, f.start, f.end, f.keyword, f.limit,
                   fault.unreadable)

\* The run after a change of the select box to sel, under filter f
ReviewRun(sc, name, sel, pos) ==
  \E fault \in sc.faults, f \in sc.filters :
  \E l1 \in {raw_listing(cfg, cache, store, fault)} :
  \E l2 \in {cur_listing(cfg, l1.cache, store, fault)} :
  \E entries \in {review_entries(cfg, l1, store, f, fault)} :
     /\ sess' = [sess EXCEPT !.review_select = sel, !.review_pos = pos]
     /\ cache' = RunCache(l1, l2)
     /\ ui' = RunUi({}, l1, l2)
     /\ last' = [RunLast(fault, l1, l2) EXCEPT
                   !.action = name, !.filter = f, !.shown = entries,
                   !.item = review_item(cfg.variant, entries, sel)]
     /\ UNCHANGED << cfg, store, last_write, nwrites, nminted, fcall >>

\* The reviewer picks the option at position pos of the select box (1 is the
\* placeholder); the widget hands the script the option's text
ReviewSelect(sc) ==
  /\ cfg.RAW_BUCKET # <<>>
  /\ \E fault \in sc.faults, f \in sc.filters :
     \E l1 \in {raw_listing(cfg, cache, store, fault)} :
     \E entries \in {review_entries(cfg, l1, store, f, fault)} :
     \E pos \in 1..(Len(entries) + 1) :
       ReviewRun(sc, "ReviewSelect", options_of(cfg.variant, entries)[pos], pos - 1)

\* The reviewer presses "◀ 이전", shown while an entry is selected
ReviewPrev(sc) ==
  /\ cfg.RAW_BUCKET # <<>>
  /\ sess.review_select # Placeholder
  /\ \E fault \in sc.faults, f \in sc.filters :
     \E l1 \in {raw_listing(cfg, cache, store, fault)} :
     \E entries \in {review_entries(cfg, l1, store, f, fault)} :
     \E b \in {prev_button(cfg.variant, entries, sess.review_select)} :
       ReviewRun(sc, "ReviewPrev", b.sel,
                 IF sess.review_pos > 1 THEN sess.review_pos - 1 ELSE sess.review_pos)

\* The reviewer presses "다음 ▶", shown while an entry is selected
ReviewNext(sc) ==
  /\ cfg.RAW_BUCKET # <<>>
  /\ sess.review_select # Placeholder
  /\ \E fault \in sc.faults, f \in sc.filters :
     \E l1 \in {raw_listing(cfg, cache, store, fault)} :
     \E entries \in {review_entries(cfg, l1, store, f, fault)} :
     \E b \in {next_button(cfg.variant, entries, sess.review_select)} :
       ReviewRun(sc, "ReviewNext", b.sel,
                 IF sess.review_pos < Len(entries) THEN sess.review_pos + 1
                 ELSE sess.review_pos)

\* Submissions of which two have the same timestamp and prompt, hence the
\* same label, and a third with another label
NavObjects(g) ==
  (<< g.RAW_BUCKET, g.RAW_PREFIX \o Slash \o strftime_ymd(D2) \o Slash \o f_b >>
     :> [timestamp |-> << "t", "1" >>, prompt |-> << "Q" >>,
         ai_response |-> << "r" >>])
  @@
  (<< g.RAW_BUCKET, g.RAW_PREFIX \o Slash \o strftime_ymd(D2) \o Slash \o f_a >>
     :> [timestamp |-> << "t", "1" >>, prompt |-> << "Q" >>,
         ai_response |-> << "s" >>])
  @@
  (<< g.RAW_BUCKET, g.RAW_PREFIX \o Slash \o strftime_ymd(D1) \o Slash \o f_c >>
     :> [prompt |-> << "k", " ", "Q" >>, ai_response |-> << "r" >>])

\* The review tab's select box and its two buttons, under a filter that
\* keeps every dated submission, no store fault
NavScope(g) ==
  [filters |-> {[start |-> D1, end |-> D2, keyword |-> <<>>,
                 limit |-> 3 * LimitUnit]},
   faults |-> {NoFault}, texts |-> {}, prompts |-> {}, svcs |-> {}]

InitNav ==
  \E g \in Deployments : \E st \in {RawObjects(g), NavObjects(g)} : Started(g, st)

NextNav ==
  \/ ReviewSelect(NavScope(cfg))
  \/ ReviewPrev(NavScope(cfg))
  \/ ReviewNext(NavScope(cfg))

SpecNav == InitNav /\ [][NextNav]_vars

\* The fresh-draft tab alone: the prompt box blank, holding one prompt or
\* edited to another, every sample answer of the model service, no store fault
EditedPromptSamples == PromptSamples \cup { << "q" >> }
GenScope(g) ==
  [filters |-> {[start |-> D1, end |-> D2, keyword |-> <<>>,
                 limit |-> 2 * LimitUnit]},
   faults |-> {NoFault},
   texts |-> {t \in ApprovedTextSamples : strip(t) # <<>>},
   prompts |-> EditedPromptSamples,
   svcs |-> SvcSamples]

InitGen == \E g \in Deployments : Started(g, RawObjects(g))

NextGen ==
  \/ GenGenerate(GenScope(cfg))
  \/ GenSave(GenScope(cfg))

SpecGen == InitGen /\ [][NextGen]_vars

(***************************************************************************)
(* The claims about the helper functions, under SpecFn                     *)
(***************************************************************************)

\* The "/"-separated segments of a key
Segments(k) == split_max(k, "/", -1)

\* key_date(k) is non-empty and start <= key_date(k) <= end as strings
DateInRange(k, start, end) ==
  /\ key_date(k) # <<>>
  /\ str_le(strftime_ymd(start), key_date(k))
  /\ str_le(key_date(k), strftime_ymd(end))

\* C1: filter_keys_by_date(keys, d1, d2) is exactly the subsequence of keys
\* (input order, nothing added) whose key_date is non-empty and lies in
\* [d1, d2] as a YYYY-MM-DD string; a key of fewer than 3 segments, or with an
\* empty second segment, is never in the result.
C1_FilterKeysExact ==
  fcall.op = "filter_keys_by_date" =>
    /\ fcall.out = SelectSeq(fcall.keys,
                             LAMBDA k : DateInRange(k, fcall.start, fcall.end))
    /\ \A i \in 1..Len(fcall.out) :
         /\ Len(Segments(fcall.out[i])) >= 3
         /\ Segments(fcall.out[i])[2] # <<>>

\* C1 witness: of two keys, one dated on the last day of the range and one of
\* fewer than 3 segments, the first is kept and the second dropped
C1_Witness ==
  /\ fcall.op = "filter_keys_by_date"
  /\ Len(fcall.keys) = 2
  /\ key_date(fcall.keys[1]) = strftime_ymd(fcall.end)
  /\ Len(Segments(fcall.keys[2])) < 3
  /\ fcall.out = << fcall.keys[1] >>

\* C4 as stated: for a raw key of at least 3 segments the result is the raw
\* key with only its first segment replaced by the curated namespace, and
\* key_date of the result equals key_date of the raw key.
C4_OnlyFirstSegmentReplaced ==
  (fcall.op = "curated_key_from_raw" /\ Len(Segments(fcall.raw_key)) >= 3) =>
    /\ fcall.out = fcall.cur_prefix \o Slash
                     \o join(Tail(Segments(fcall.raw_key)), Slash)
    /\ key_date(fcall.out) = key_date(fcall.raw_key)

\* C5: for a raw key of fewer than 3 segments (the empty key included) the
\* result is <curated namespace>/<current UTC date>/<fresh id>.json, built
\* from the namespace, the clock and the fresh id alone: nothing of the raw
\* key is in it.
C5_MalformedKeyMintsFresh ==
  (fcall.op = "curated_key_from_raw" /\ Len(Segments(fcall.raw_key)) < 3) =>
    fcall.out = fcall.cur_prefix \o Slash \o fcall.day \o Slash \o fcall.hex10
                  \o DotJson

\* C5 witness: a non-empty raw key of fewer than 3 segments has been mapped
C5_Witness ==
  /\ fcall.op = "curated_key_from_raw"
  /\ fcall.raw_key # <<>>
  /\ Len(Segments(fcall.raw_key)) < 3
  /\ fcall.out = fcall.cur_prefix \o Slash \o strftime_ymd(D2) \o Slash
                   \o fcall.hex10 \o DotJson

\* output = approved_response if it is non-empty, ai_response otherwise
OutputOf(e) ==
  IF Get(e, "approved_response", <<>>) # <<>> THEN e["approved_response"]
  ELSE Get(e, "ai_response", <<>>)

\* C7 as stated: one record per entry whose prompt is non-empty and whose
\* output is non-empty after trimming, every other entry skipped.
C7_SkipsOnlyEmptyPrompt ==
  fcall.op = "to_jsonl_lines" =>
    Len(fcall.out) =
      Len(SelectSeq(fcall.entries,
                    LAMBDA e : Get(e, "prompt", <<>>) # <<>>
                               /\ strip(OutputOf(e)) # <<>>))

\* The entries of a to_jsonl_lines call that yield a record
JsonlKept(entries) ==
  SelectSeq(entries, LAMBDA e : strip(Get(e, "prompt", <<>>)) # <<>>
                                /\ strip(OutputOf(e)) # <<>>)

\* C7, amended: to_jsonl_lines yields, in input order, one record per entry
\* whose prompt and whose output are both non-empty after trimming; the user
\* turn carries the trimmed prompt and the model turn the trimmed output.
C7_SkipsBlankPromptOrOutput ==
  fcall.op = "to_jsonl_lines" =>
    /\ Len(fcall.out) = Len(JsonlKept(fcall.entries))
    /\ \A i \in 1..Len(fcall.out) :
         fcall.out[i] =
           jsonl_record(strip(Get(JsonlKept(fcall.entries)[i], "prompt", <<>>)),
                        strip(OutputOf(JsonlKept(fcall.entries)[i])))

\* C7 witness: of two entries the one with a whitespace-only prompt (and an
\* approved response) is skipped, the other yields its record
C7_Witness ==
  /\ fcall.op = "to_jsonl_lines"
  /\ Len(fcall.entries) = 2
  /\ Get(fcall.entries[1], "prompt", <<>>) = << " " >>
  /\ strip(OutputOf(fcall.entries[1])) # <<>>
  /\ Len(fcall.out) = 1

\* The concatenation of the four searched fields of an entry
SearchedText(e) ==
  GetOrEmpty(e, "prompt") \o GetOrEmpty(e, "ai_response")
    \o GetOrEmpty(e, "approved_response") \o GetOrEmpty(e, "review_notes")

\* C8 as stated: an entry is kept exactly when the keyword occurs,
\* case-insensitively, in the concatenation of its four fields; the empty
\* keyword keeps every entry.
C8_MatchesConcatenation ==
  fcall.op = "keyword_filter" =>
    fcall.out =
      SelectSeq(fcall.entries,
                LAMBDA e : fcall.keyword = <<>>
                           \/ str_in(lower(fcall.keyword), lower(SearchedText(e))))

\* C8, amended: an entry is kept exactly when the keyword occurs,
\* case-insensitively, within one of its four fields (a missing field counting
\* as the empty string); an empty or whitespace-only keyword keeps every
\* entry unchanged.
C8_MatchesWithinOneField ==
  fcall.op = "keyword_filter" =>
    fcall.out =
      IF strip(fcall.keyword) = <<>> THEN fcall.entries
      ELSE SelectSeq(fcall.entries,
                     LAMBDA e : \E f \in {"prompt", "ai_response",
                                         "approved_response", "review_notes"} :
                                  str_in(lower(fcall.keyword),
                                         lower(GetOrEmpty(e, f))))

\* C8 witness: the keyword occurs across the boundary of two fields of an
\* entry and in no single field, and the entry is dropped
C8_Witness ==
  /\ fcall.op = "keyword_filter"
  /\ strip(fcall.keyword) # <<>>
  /\ \E i \in 1..Len(fcall.entries) :
       str_in(lower(fcall.keyword), lower(SearchedText(fcall.entries[i])))
  /\ fcall.out = <<>>

(***************************************************************************)
(* The claims about the listings, under SpecBrowse                         *)
(***************************************************************************)

\* The listing the last run filtered, and the bucket it loaded from
BrowsedKeys ==
  IF last.action = "BrowseReview" THEN last.raw_list.keys ELSE last.cur_list.keys
BrowsedBucket ==
  IF last.action = "BrowseReview" THEN cfg.RAW_BUCKET ELSE CuratedBucket(cfg)

\* The last run was a browse that got through both listings
Browsed ==
  /\ last.action \in {"BrowseReview", "BrowseExport"}
  /\ ~ui.crashed

\* The keys of the listing that lie in the date range of the filter
BrowsedInRange ==
  SelectSeq(BrowsedKeys,
            LAMBDA k : DateInRange(k, last.filter.start, last.filter.end))

\* The entry matches the keyword of the filter (a blank keyword matches all)
MatchesFilter(e) ==
  strip(last.filter.keyword) = <<>> \/ contains_keyword(e, last.filter.keyword)

\* C3 as stated: date filter, then keyword filter, then the limit N: the
\* entries presented are the first N of the entries that match both the date
\* range and the keyword.
C3_LimitAppliedLast ==
  Browsed =>
    last.shown =
      take(SelectSeq(load_entries(store, BrowsedBucket, BrowsedInRange,
                                  last.unreadable),
                     MatchesFilter),
           last.filter.limit)

\* C3, amended: date filter, then the limit N, then the keyword filter: the
\* entries presented are those of the first N keys in the date range that
\* can be read and match the keyword, so fewer than N entries may be
\* presented while further matching entries exist.
C3_LimitBeforeKeyword ==
  Browsed =>
    last.shown =
      SelectSeq(load_entries(store, BrowsedBucket,
                             take(BrowsedInRange, last.filter.limit),
                             last.unreadable),
                MatchesFilter)

\* C3 witness: the review tab shows nothing although a readable entry in the
\* date range matches the keyword: it lies beyond the first N keys
C3_Witness ==
  /\ last.action = "BrowseReview"
  /\ ~ui.crashed
  /\ last.shown = <<>>
  /\ Len(BrowsedInRange) > last.filter.limit
  /\ \E i \in (last.filter.limit + 1)..Len(BrowsedInRange) :
       /\ << cfg.RAW_BUCKET, BrowsedInRange[i] >> \in DOMAIN store
       /\ BrowsedInRange[i] \notin last.unreadable
       /\ contains_keyword(store[<< cfg.RAW_BUCKET, BrowsedInRange[i] >>],
                           last.filter.keyword)
       /\ strip(last.filter.keyword) # <<>>

\* C9 as stated: when the store fails during a listing, list_keys does not
\* raise: it returns the empty sequence and a warning is shown, in every
\* variant of the admin application.
C9_ListKeysNeverRaises ==
  \A l \in {last.raw_list, last.cur_list} :
    l.failed => (~l.raised /\ ~ui.crashed /\ l.keys = <<>> /\ l.warned
                 /\ "warning_list_failed" \in ui.msgs)

(***************************************************************************)
(* The claims about saving, under SpecSave                                 *)
(***************************************************************************)

\* The last run pressed one of the two save buttons
Saved == last.action \in {"ReviewApprove", "GenSave"}

\* The place in the store the last save wrote to
SavedAt == << CuratedBucket(cfg), last.out_key >>

\* C2 as stated: approving with a text that trims to empty fails before any
\* write: nothing is written to the curated store and no raw object is
\* deleted.
C2_BlankTextNotSaved ==
  (Saved /\ strip(last.approved_text) = <<>>) =>
    (~last.wrote /\ ~last.deleted /\ "success_saved" \notin ui.msgs)

\* C6 as stated: an object once written by the pipeline under a key is never
\* changed by a later operation: the key keeps the content of its first
\* write.
C6_FirstWriteKept ==
  [][\A q \in DOMAIN last_write \cap DOMAIN store :
       q \in DOMAIN store' => store'[q] = store[q]]_vars

\* C6, amended: a save replaces whatever is stored under its key: after any
\* sequence of saves and deletes, the content stored at a key the pipeline
\* wrote is the content of the most recent write to that key.
C6_LatestWriteKept ==
  \A q \in DOMAIN last_write \cap DOMAIN store : store[q] = last_write[q]

\* C6 witness: the same raw entry approved a second time, with another text:
\* the record at its curated key (no raw key) was replaced by the new one
C6_Witness ==
  /\ last.action = "ReviewApprove"
  /\ last.overwrote
  /\ cfg.CUR_PREFIX # cfg.RAW_PREFIX
  /\ nwrites = 2
  /\ SavedAt \in DOMAIN store
  /\ store[SavedAt] = last.out

\* The last run ticked delete-after-approval and the delete failed
DeleteFailed ==
  /\ last.action = "ReviewApprove"
  /\ last.delete_after
  /\ last.delete_failed

\* C10: when delete-after-approval is requested and the delete of the raw
\* object fails, the curated object stays at its key with the approved
\* content, the raw object is still present, the save is reported as done and
\* the failure only as a warning, not as an error.
C10_FailedDeleteOnlyWarns ==
  DeleteFailed =>
    /\ last.wrote
    /\ SavedAt \in DOMAIN store
    /\ store[SavedAt] = last.out
    /\ store[SavedAt]["approved_response"] = strip(last.approved_text)
    /\ << last.item["_bucket"], last.item["_key"] >> \in DOMAIN store
    /\ "success_saved" \in ui.msgs
    /\ "warning_delete_failed" \in ui.msgs
    /\ "error_save_failed" \notin ui.msgs

\* C10 witness: a delete failed after the approved record of a raw entry was
\* written to a curated key of its own
C10_Witness ==
  /\ DeleteFailed
  /\ SavedAt # << last.item["_bucket"], last.item["_key"] >>
  /\ SavedAt \in DOMAIN store
  /\ "warning_delete_failed" \in ui.msgs

\* The last run approved a raw entry and its upload succeeded
Approved == last.action = "ReviewApprove" /\ last.wrote

\* The fields the approval sets
ApprovalFields ==
  {"approved_response", "approved_by", "approved_at", "review_notes",
   "source_raw_bucket", "source_raw_key"}

\* C11: the record written by approving a raw entry holds every field of the
\* entry; approved_response is the trimmed approved text, approved_by the
\* approver id, approved_at the approval time, review_notes the notes typed,
\* source_raw_bucket / source_raw_key the bucket and key the entry was loaded
\* from; every other field of the entry keeps its value.
C11_ApprovedRecordFields ==
  Approved =>
    /\ DOMAIN last.out = DOMAIN last.item \cup ApprovalFields
    /\ last.out["approved_response"] = strip(last.approved_text)
    /\ last.out["approved_by"] = s_admin
    /\ last.out["approved_at"] \in {strftime_iso(now) : now \in UtcNowSamples}
    /\ last.out["review_notes"] \in NotesSamples
    /\ last.out["source_raw_bucket"] = cfg.RAW_BUCKET
    /\ last.out["source_raw_key"] = last.item["_key"]
    /\ \A f \in DOMAIN last.item \ ApprovalFields : last.out[f] = last.item[f]
    /\ last_write[SavedAt] = last.out

\* C11 witness: a raw entry with a timestamp was approved with a text that
\* has blanks around it, and the record holds the trimmed text
C11_Witness ==
  /\ Approved
  /\ "timestamp" \in DOMAIN last.item
  /\ last.approved_text # strip(last.approved_text)
  /\ last.out["approved_response"] = << "A" >>
  /\ last.out["timestamp"] = last.item["timestamp"]

\* C12 as stated: no object written to the curated store by approve or
\* fresh-save contains a _bucket or a _key field.
C12_OriginTagsNotPersisted ==
  \A q \in DOMAIN last_write :
    "_bucket" \notin DOMAIN last_write[q] /\ "_key" \notin DOMAIN last_write[q]

\* The raw key the last approval started from
ApprovedRawKey == last.item["_key"]

\* C15 as stated (its part about the store): approving a raw entry stored at
\* a well-formed key with delete-after-approval, write and delete both
\* succeeding, leaves a curated object at <curated prefix>/<date>/<file>
\* whose approved_response is the approved text and whose source_raw_key is
\* the raw key, and the raw object is gone.
C15_ApproveAndDeleteEndToEnd ==
  (Approved /\ last.deleted /\ Len(Segments(ApprovedRawKey)) = 3) =>
    /\ last.out_key = cfg.CUR_PREFIX \o Slash \o Segments(ApprovedRawKey)[2]
                        \o Slash \o Segments(ApprovedRawKey)[3]
    /\ SavedAt \in DOMAIN store
    /\ store[SavedAt]["approved_response"] = strip(last.approved_text)
    /\ store[SavedAt]["source_raw_key"] = ApprovedRawKey
    /\ << cfg.RAW_BUCKET, ApprovedRawKey >> \notin DOMAIN store

\* s is a YYYY-MM-DD string
IsYmd(s) ==
  /\ Len(s) = 10
  /\ s[5] = "-" /\ s[8] = "-"
  /\ \A i \in {1, 2, 3, 4, 6, 7, 9, 10} : s[i] \in {Digit(n) : n \in 0..9}

\* C16 as stated: every key the pipeline writes a curated object under has
\* the shape <namespace>/<YYYY-MM-DD>/<id>.json, so that key_date of the key
\* is its partition date, for every configured curated prefix.
C16_WrittenKeyShape ==
  \A q \in DOMAIN last_write :
    /\ IsYmd(key_date(q[2]))
    /\ startswith(q[2], cfg.CUR_PREFIX \o Slash \o key_date(q[2]) \o Slash)
    /\ endswith(q[2], DotJson)

\* C19 as stated: after an approval whose curated write succeeded, with or
\* without delete-after-approval, an object with the approved content exists
\* at the destination key, in every configuration of buckets and prefixes.
C19_DeleteKeepsCuratedObject ==
  Approved => (SavedAt \in DOMAIN store /\ store[SavedAt] = last.out)

(***************************************************************************)
(* The claims about generation, under SpecFn                               *)
(***************************************************************************)

\* The text the streaming attempt of call_model (admin_app.py) collected
StreamText(svc) == strip(join(svc.stream.chunks, <<>>))

\* The first attempt of the generation routine called last failed: it raised,
\* or it gave no text
FirstAttemptFailed ==
  \/ /\ fcall.op = "call_model" /\ fcall.variant = "admin_app"
     /\ (fcall.svc.stream.raises \/ StreamText(fcall.svc) = <<>>)
  \/ /\ fcall.op = "call_model" /\ fcall.variant = "new"
     /\ (fcall.svc.plain.raises \/ strip(fcall.svc.plain.resp.text) = <<>>)
  \/ /\ fcall.op = "generate_ai_response"
     /\ (fcall.svc.first.raises \/ strip(fcall.svc.first.text) = <<>>)

\* C13 as stated: for every failure of the first attempt (it raises, returns
\* empty text or is blocked) exactly one fallback attempt is made, in the
\* generation routine of every variant.
C13_OneFallbackEverywhere ==
  (fcall.op \in {"call_model", "generate_ai_response"} /\ FirstAttemptFailed) =>
    fcall.out.calls = 2

\* The last call was call_model of src/admin_app.py
CalledModelAdmin == fcall.op = "call_model" /\ fcall.variant = "admin_app"

\* The fallback of the last call_model failed: it raised, or it gave no text
FallbackFailed ==
  /\ fcall.out.calls = 2
  /\ (fcall.svc.plain.raises \/ extract_text(fcall.svc.plain.resp) = <<>>)

\* C14 as stated: call_model makes at most two calls; the fallback is made
\* only when the streaming attempt raised or produced no text; a failure of
\* the fallback reaches the caller as a failure, never as a returned empty
\* text.
C14_FallbackFailureRaises ==
  CalledModelAdmin =>
    /\ fcall.out.calls \in {1, 2}
    /\ (fcall.out.calls = 2 =>
          (fcall.svc.stream.raises \/ StreamText(fcall.svc) = <<>>))
    /\ (FallbackFailed => fcall.out.raised)

\* C14, amended: call_model makes the streaming call and, exactly when that
\* produced no text, one non-streaming call, then returns.  A fallback that
\* raises reaches the caller as that exception; a fallback that gives no text
\* is returned as the empty text together with the metadata saying whether it
\* was blocked and why.  The caller sees only the final (text, metadata) pair.
C14_FallbackOnceThenReturns ==
  CalledModelAdmin =>
    /\ fcall.out.calls \in {1, 2}
    /\ (fcall.out.calls = 2 <=> StreamText(fcall.svc) = <<>>)
    /\ (fcall.out.calls = 1 =>
          /\ ~fcall.out.raised
          /\ fcall.out.text = StreamText(fcall.svc)
          /\ ~fcall.out.meta.blocked)
    /\ (fcall.out.calls = 2 /\ fcall.svc.plain.raises => fcall.out.raised)
    /\ (fcall.out.calls = 2 /\ ~fcall.svc.plain.raises =>
          /\ ~fcall.out.raised
          /\ fcall.out.text = extract_text(fcall.svc.plain.resp)
          /\ fcall.out.meta.blocked = (Len(fcall.svc.plain.resp.reasons) > 0))

\* C14 witness: the stream raised, the fallback raised too, and call_model
\* raised after its two calls
C14_Witness ==
  /\ CalledModelAdmin
  /\ fcall.svc.stream.raises
  /\ fcall.svc.plain.raises
  /\ fcall.out.calls = 2
  /\ fcall.out.raised

(***************************************************************************)
(* The claims about load_entries, under SpecFn                             *)
(***************************************************************************)

\* The object of key k can be fetched and its text parsed as JSON
Parsed(k) ==
  << fcall.bucket, k >> \in DOMAIN LoadStore /\ k \notin fcall.unreadable

\* The object of key k can be fetched and parsed, and is a JSON object
ParsedDict(k) == Parsed(k) /\ is_dict(LoadStore[<< fcall.bucket, k >>])

\* The entries of out are, in order, the objects of kept, each tagged with
\* the bucket argument and its own key
EntriesOf(out, kept) ==
  /\ Len(out) = Len(kept)
  /\ \A i \in 1..Len(kept) :
       LET d == LoadStore[<< fcall.bucket, kept[i] >>] IN
       /\ DOMAIN out[i] = DOMAIN d \cup {"_bucket", "_key"}
       /\ out[i]["_bucket"] = fcall.bucket
       /\ out[i]["_key"] = kept[i]
       /\ \A f \in DOMAIN d \ {"_bucket", "_key"} : out[i][f] = d[f]

\* C17 as stated: load_entries returns, in the order of keys, one entry for
\* exactly the keys whose object can be fetched and parsed as JSON, each
\* carrying _bucket and _key.
C17_EntryForEveryParsedKey ==
  fcall.op = "load_entries" =>
    Len(fcall.out) = Len(SelectSeq(fcall.keys, Parsed))

\* C17, amended: load_entries returns, in the order of keys, one entry for
\* exactly the keys whose object can be fetched and parsed as a JSON object
\* (a dict); a key whose object is missing, unreadable, not valid JSON or not
\* a JSON object is skipped without affecting the other keys; each entry
\* carries _bucket equal to the bucket argument and _key equal to its key,
\* replacing such fields of the stored object.
C17_EntryForEveryParsedDict ==
  fcall.op = "load_entries" =>
    EntriesOf(fcall.out, SelectSeq(fcall.keys, ParsedDict))

\* C17 witness: a call given a stored record carrying old tags and, after it,
\* an object that is not a dict, returning the record only, tagged anew
C17_Witness ==
  /\ fcall.op = "load_entries"
  /\ fcall.bucket = b1
  /\ fcall.unreadable = {}
  /\ fcall.keys = << k_c, k_b >>
  /\ Len(fcall.out) = 1
  /\ fcall.out[1]["_key"] = k_c

(***************************************************************************)
(* The claims about list_keys, under SpecFn                                *)
(***************************************************************************)

\* The names of the bucket argument under prefix/ that end in ".json"
NamesUnder ==
  { r[2] : r \in { q \in DOMAIN ListStore :
                     /\ q[1] = fcall.bucket
                     /\ startswith(q[2], fcall.prefix \o Slash)
                     /\ endswith(q[2], DotJson) } }

\* keys holds exactly the names under prefix/ ending in ".json", each once,
\* in descending lexical order, so that a dated key of a later day precedes
\* a dated key of an earlier day
ExactListing(keys) ==
  /\ { keys[i] : i \in 1..Len(keys) } = NamesUnder
  /\ Len(keys) = Cardinality(NamesUnder)
  /\ \A i, j \in 1..Len(keys) : i < j => str_lt(keys[j], keys[i])
  /\ \A i, j \in 1..Len(keys) : \A da, db \in {D9, D1, D2, D10} :
       ( /\ key_date(keys[i]) = strftime_ymd(da)
         /\ key_date(keys[j]) = strftime_ymd(db)
         /\ ~date_le(da, db) ) => i < j

\* An empty bucket or prefix argument yields [] without contacting the store
EmptyArgumentsListNothing ==
  (fcall.bucket = <<>> \/ fcall.prefix = <<>>) =>
    /\ fcall.out.keys = <<>>
    /\ ~fcall.out.raised
    /\ ~fcall.out.contacted

\* C18 as stated: a successful list_keys(bucket, prefix) returns exactly the
\* object names under prefix/ that end in ".json", each once, sorted in
\* descending lexical order (later partition dates first); an empty bucket or
\* prefix yields the empty list without contacting the store.
C18_SuccessfulListingExact ==
  fcall.op = "list_keys" =>
    /\ EmptyArgumentsListNothing
    /\ ( /\ fcall.bucket # <<>> /\ fcall.prefix # <<>>
         /\ ~fcall.out.raised /\ ~fcall.out.warned ) => ExactListing(fcall.out.keys)

\* C18, amended: a list_keys(bucket, prefix) call that reaches the store and
\* is answered returns exactly the object names under prefix/ that end in
\* ".json", each once, in descending lexical order (later partition dates
\* first); a call made within the time to live of an earlier call with the
\* same arguments returns what that call returned, without contacting the
\* store; an empty bucket or prefix yields the empty list without contacting
\* the store.
C18_FreshListingExact ==
  fcall.op = "list_keys" =>
    /\ EmptyArgumentsListNothing
    /\ (fcall.out.contacted /\ ~fcall.store_fails) => ExactListing(fcall.out.keys)
    /\ cache_hit(fcall.cache, fcall.bucket, fcall.prefix) =>
         /\ fcall.out.keys = fcall.cache[<< fcall.bucket, fcall.prefix >>].keys
         /\ ~fcall.out.contacted
    /\ ( /\ ~cache_hit(fcall.cache, fcall.bucket, fcall.prefix)
         /\ fcall.bucket # <<>> /\ fcall.prefix # <<>> ) => fcall.out.contacted

\* C18 witness: a call that reached the store and returned the five names
\* under raw/: the undated one, then the dated ones from October 2025 down to
\* December 2024
C18_Witness ==
  /\ fcall.op = "list_keys"
  /\ fcall.out.contacted
  /\ ~fcall.store_fails
  /\ Len(fcall.out.keys) = 5
  /\ fcall.out.keys[1] = k_c
  /\ key_date(fcall.out.keys[2]) = strftime_ymd(D10)
  /\ key_date(fcall.out.keys[5]) = strftime_ymd(D9)

(***************************************************************************)
(* The claim about the fresh-draft flow, under SpecGen                     *)
(***************************************************************************)

\* C20 as stated: after any sequence of prompt edits, generate actions and
\* save actions, every record a save persists pairs its ai_response with the
\* prompt that was sent to the model to produce that draft, never a later
\* edit of the prompt box and never the prompt of a failed generation.
C20_SavedPromptProducedDraft ==
  (last.action = "GenSave" /\ last.wrote) =>
    /\ last.out.ai_response = sess.admin_last_ai
    /\ last.out.prompt = sess.draft_prompt

(***************************************************************************)
(* The claim about the review tab's selection, under SpecNav               *)
(***************************************************************************)

\* The last run followed a selection or a press of "previous" or "next"
Navigated == last.action \in {"ReviewSelect", "ReviewPrev", "ReviewNext"}

\* The Python index the last button press used in options, when its guard
\* let it assign the select box
ButtonIndexInRange ==
  /\ \A b \in {prev_button(cfg.variant, last.shown, sess.review_select)} :
       b.guard => (0 <= b.at /\ b.at <= Len(last.shown))
  /\ \A b \in {next_button(cfg.variant, last.shown, sess.review_select)} :
       b.guard => (0 <= b.at /\ b.at <= Len(last.shown))

\* C21 as stated: for every filtered entry list, two entries of the same
\* label included, the item shown for a selection is the entry at the
\* selected position; "previous" moves the selection one position earlier
\* and "next" one position later, both doing nothing at the ends of the
\* list; neither indexes outside the option list.
C21_SelectionFollowsPosition ==
  (Navigated /\ sess.review_pos >= 1) =>
    /\ last.item = last.shown[sess.review_pos]
    /\ ButtonIndexInRange

=============================================================================
